---- MODULE Spec2Model ----
(***************************************************************************)
(* Model of grax (src/src/main.rs): a command-line GPU monitor.  main     *)
(* initialises the GPU library, dispatches on the subcommand, and for      *)
(* `query` renders the text returned by get_metrics once or in a loop      *)
(* that a Ctrl-C handler cancels through an atomic flag.                    *)
(*                                                                         *)
(* Strings are sequences of ASCII codes, so that formatting, lowercasing   *)
(* and the lexicographic comparison of the sort are computed as the code   *)
(* computes them.  Terminal writes and the installation of the Ctrl-C      *)
(* handler are taken to succeed (their unwrap/expect never fire).  Byte    *)
(* counts are u64 in the code; the samples stay below 2^31, and division   *)
(* cannot overflow.                                                        *)
(***************************************************************************)
EXTENDS Integers, Sequences, FiniteSets, TLC

VARIABLES pc, cmd, nvml, running, handler, sys, polls, term, exitCode,
          queried, device, result

vars == <<pc, cmd, nvml, running, handler, sys, polls, term, exitCode,
          queried, device, result>>

---------------------------------------------------------------------------
(* Bounds of the model *)

\* the two process lists of one poll hold at most MaxProcs entries together
MaxProcs == 2
\* the watch loop starts at most MaxPolls iterations
MaxPolls == 2
\* the bound on the process lists under FairSpec, whose claim is about control flow
MaxProcsFair == 0

(* Program constants: the column widths of the row format *)
PidWidth == 8
NameWidth == 24
MemWidth == 16

---------------------------------------------------------------------------
(* Input samples *)

\* "2" sorts after "10" as text
Pids == {2, 10}

\* "a" and "A"
ProcNames == {<<97>>, <<65>>}

Unavailable == [avail |-> FALSE, bytes |-> 0]
Used(b) == [avail |-> TRUE, bytes |-> b]
\* 3145727 bytes show as 2 MiB
Readings == {Unavailable, Used(3145727)}

UtilSamples == {42, 100}

MemSamples ==
    { [total |-> 2147483647, used |-> 1048576, free |-> 2146435071],
      [total |-> 2097152, used |-> 1048575, free |-> 1048577] }

ProcessInfo == [pid : Pids, used_gpu_memory : Readings]

ProcLists(n) == UNION { [1..k -> ProcessInfo] : k \in 0..n }

\* sysinfo's process table: pid -> the process, if any
NoProcess == [some |-> FALSE, name |-> <<>>]
Process(n) == [some |-> TRUE, name |-> n]
SysTables == [Pids -> {NoProcess} \cup {Process(n) : n \in ProcNames}]
EmptySys == [p \in Pids |-> NoProcess]

Commands == {"none", "info", "query", "query_watch"}

---------------------------------------------------------------------------
(* Results of fallible calls *)

Ok(v) == [ok |-> TRUE, val |-> v]
Err == [ok |-> FALSE, val |-> 0]

NoDevice == [utilization |-> Err, memory |-> Err, compute |-> Err, graphics |-> Err]
NoResult == [ok |-> FALSE, err |-> "none", buffer |-> <<>>]

---------------------------------------------------------------------------
(* Text *)

Space == 32
Newline == 10

RECURSIVE Decimal(_)
Decimal(n) == IF n < 10 THEN <<48 + n>> ELSE Decimal(n \div 10) \o <<48 + (n % 10)>>

\* {:<w}: left-aligned, padded with spaces up to width w, never truncated
PadRight(s, w) == IF Len(s) >= w THEN s ELSE s \o [i \in 1..(w - Len(s)) |-> Space]

LowerChar(c) == IF c >= 65 /\ c <= 90 THEN c + 32 ELSE c
ToLowercase(s) == [i \in 1..Len(s) |-> LowerChar(s[i])]

\* Ord of two strings: -1 less, 0 equal, 1 greater
RECURSIVE StrCmp(_, _)
StrCmp(a, b) ==
    IF a = <<>> THEN (IF b = <<>> THEN 0 ELSE -1)
    ELSE IF b = <<>> THEN 1
    ELSE IF Head(a) < Head(b) THEN -1
    ELSE IF Head(a) > Head(b) THEN 1
    ELSE StrCmp(Tail(a), Tail(b))

---------------------------------------------------------------------------
(* get_gpu_memory_utilization, get_process_name, get_gpu_processes, get_metrics *)

\* divides once only
ToMiBOnce(bytes) == bytes \div 1024

ToMiB(bytes) == (bytes \div 1024) \div 1024

GetGpuMemoryUtilization(dev) ==
    IF ~dev.memory.ok THEN Err
    ELSE Ok(<<ToMiB(dev.memory.val.total), ToMiB(dev.memory.val.used),
              ToMiB(dev.memory.val.free)>>)

Unknown == <<117, 110, 107, 110, 111, 119, 110>>

GetProcessName(s, pid) == IF s[pid].some THEN s[pid].name ELSE Unknown

\* processes.insert(pid, mem) for each compute process, in list order
RECURSIVE InsertAll(_, _)
InsertAll(map, list) ==
    IF list = <<>> THEN map
    ELSE LET p == Head(list)
             dom == DOMAIN map \cup {p.pid}
         IN InsertAll([k \in dom |-> IF k = p.pid THEN p.used_gpu_memory ELSE map[k]],
                      Tail(list))

\* processes.entry(pid).or_insert(mem) for each graphics process, in list order
RECURSIVE OrInsertAll(_, _)
OrInsertAll(map, list) ==
    IF list = <<>> THEN map
    ELSE LET p == Head(list)
             dom == DOMAIN map \cup {p.pid}
         IN OrInsertAll([k \in dom |-> IF k \in DOMAIN map THEN map[k] ELSE p.used_gpu_memory],
                        Tail(list))

EmptyMap == [k \in {} |-> Unavailable]

\* graphics entries inserted with insert: the later reading wins
MergeProcessesOverwrite(compute, graphics) == InsertAll(InsertAll(EmptyMap, compute), graphics)

MergeProcesses(compute, graphics) == OrInsertAll(InsertAll(EmptyMap, compute), graphics)

MemColumn(mem) == IF mem.avail THEN ToMiB(mem.bytes) ELSE 0

\* format!("{:<8} {:<24} {:<16}\n", pid, name, mem)
FormatRow(pid, name, mem) ==
    PadRight(Decimal(pid), PidWidth) \o <<Space>> \o PadRight(name, NameWidth)
        \o <<Space>> \o PadRight(Decimal(mem), MemWidth) \o <<Newline>>

\* the sort_by closure: a.to_lowercase().cmp(&b.to_lowercase())
RowCompare(a, b) == StrCmp(ToLowercase(a), ToLowercase(b))

\* sort_by is a stable sort: x goes after every element that is not greater
RECURSIVE InsertStable(_, _)
InsertStable(sorted, x) ==
    IF sorted = <<>> THEN <<x>>
    ELSE IF RowCompare(Head(sorted), x) <= 0
         THEN <<Head(sorted)>> \o InsertStable(Tail(sorted), x)
         ELSE <<x>> \o sorted

RECURSIVE SortRows(_)
SortRows(rows) ==
    IF rows = <<>> THEN <<>>
    ELSE InsertStable(SortRows(SubSeq(rows, 1, Len(rows) - 1)), rows[Len(rows)])

\* the orders in which a HashMap may yield its entries
IterOrders(map) ==
    LET n == Cardinality(DOMAIN map)
    IN { o \in [1..n -> DOMAIN map] : \A i, j \in 1..n : i # j => o[i] # o[j] }

\* the rows left in iteration order
GetGpuProcessesUnsorted(dev, s, order) ==
    IF ~dev.compute.ok THEN Err
    ELSE IF ~dev.graphics.ok THEN Err
    ELSE LET processes == MergeProcesses(dev.compute.val, dev.graphics.val)
         IN Ok([i \in 1..Len(order) |->
                  FormatRow(order[i], GetProcessName(s, order[i]),
                            MemColumn(processes[order[i]]))])

\* order: the iteration order of processes.into_iter()
GetGpuProcesses(dev, s, order) ==
    IF ~dev.compute.ok THEN Err
    ELSE IF ~dev.graphics.ok THEN Err
    ELSE LET processes == MergeProcesses(dev.compute.val, dev.graphics.val)
             rows == [i \in 1..Len(order) |->
                        FormatRow(order[i], GetProcessName(s, order[i]),
                                  MemColumn(processes[order[i]]))]
         IN Ok(IF DOMAIN processes # {} THEN SortRows(rows) ELSE <<>>)

\* One chunk of the buffer: the format string pushed and its arguments
Chunk(fmt, args) == [fmt |-> fmt, args |-> args]

Separator == Chunk("---------------------------\n\n", <<>>)

GetMetrics(dev, s, order) ==
    IF ~dev.utilization.ok THEN [ok |-> FALSE, err |-> "utilization", buffer |-> <<>>]
    ELSE LET m == GetGpuMemoryUtilization(dev) IN
    IF ~m.ok THEN [ok |-> FALSE, err |-> "memory", buffer |-> <<>>]
    ELSE LET head ==
               << Chunk("Overall GPU utilization: {}%\n", <<Decimal(dev.utilization.val)>>),
                  Separator,
                  Chunk("GPU Memory Usage: {} MiB used / {} MiB total ({} MiB free)\n",
                        <<Decimal(m.val[2]), Decimal(m.val[1]), Decimal(m.val[3])>>),
                  Separator,
                  Chunk("Processes using GPU memory:\n", <<>>),
                  Separator,
                  Chunk("{:<8} {:<24} {:<16}\n", <<"PID", "NAME", "GPU Memory (MiB)">>) >>
             p == GetGpuProcesses(dev, s, order)
         IN IF ~p.ok
            THEN [ok |-> FALSE,
                  err |-> IF dev.compute.ok THEN "graphics" ELSE "compute",
                  buffer |-> <<>>]
            ELSE [ok |-> TRUE, err |-> "none",
                  buffer |-> head \o [i \in 1..Len(p.val) |-> Chunk("{}", <<p.val[i]>>)]]

---------------------------------------------------------------------------
(* main *)

Init ==
    /\ pc = "start"
    /\ cmd \in Commands
    /\ nvml = "uninit"
    /\ running = TRUE
    /\ handler = FALSE
    /\ sys = EmptySys
    /\ polls = 0
    /\ term = <<>>
    /\ exitCode = 0
    /\ queried = FALSE
    /\ device = NoDevice
    /\ result = NoResult

\* let nvml = Nvml::init()?;
NvmlInit ==
    /\ pc = "start"
    /\ \E ok \in BOOLEAN :
         IF ok THEN /\ nvml' = "ready"
                    /\ pc' = "device"
                    /\ UNCHANGED exitCode
               ELSE /\ nvml' = "init_failed"
                    /\ pc' = "done"
                    /\ exitCode' = 1
    /\ UNCHANGED <<cmd, running, handler, sys, polls, term, queried, device, result>>

\* the error of device_by_index dropped instead of returned
DeviceByIndexIgnored ==
    /\ pc = "device"
    /\ \E ok \in BOOLEAN : nvml' = IF ok THEN "device_ok" ELSE "no_device"
    /\ pc' = "dispatch"
    /\ UNCHANGED <<cmd, running, handler, sys, polls, term, exitCode, queried, device, result>>

\* let device = nvml.device_by_index(0)?;
DeviceByIndex ==
    /\ pc = "device"
    /\ \E ok \in BOOLEAN :
         IF ok THEN /\ nvml' = "device_ok"
                    /\ pc' = "dispatch"
                    /\ UNCHANGED exitCode
               ELSE /\ nvml' = "no_device"
                    /\ pc' = "done"
                    /\ exitCode' = 1
    /\ UNCHANGED <<cmd, running, handler, sys, polls, term, queried, device, result>>

\* no subcommand handled as a one-shot query
DispatchDefaultQuery ==
    /\ pc = "dispatch"
    /\ IF cmd = "query_watch"
         THEN /\ term' = term \o <<"Hide", "Clear(All)">>
              /\ pc' = "set_handler"
         ELSE /\ pc' = IF cmd = "info" THEN "info" ELSE "get_metrics"
              /\ UNCHANGED term
    /\ UNCHANGED <<cmd, nvml, running, handler, sys, polls, exitCode, queried, device, result>>

\* match &cli.command
Dispatch ==
    /\ pc = "dispatch"
    /\ CASE cmd = "query_watch" ->
              /\ term' = term \o <<"Hide", "Clear(All)">>
              /\ pc' = "set_handler"
              /\ UNCHANGED exitCode
         [] cmd = "query" ->
              /\ pc' = "get_metrics"
              /\ UNCHANGED <<term, exitCode>>
         [] cmd = "info" ->
              /\ pc' = "info"
              /\ UNCHANGED <<term, exitCode>>
         [] cmd = "none" ->
              /\ pc' = "done"
              /\ exitCode' = 0
              /\ UNCHANGED term
    /\ UNCHANGED <<cmd, nvml, running, handler, sys, polls, queried, device, result>>

\* ctrlc::set_handler(...) with running = true
SetHandler ==
    /\ pc = "set_handler"
    /\ running' = TRUE
    /\ handler' = TRUE
    /\ pc' = "loop"
    /\ UNCHANGED <<cmd, nvml, sys, polls, term, exitCode, queried, device, result>>

\* the Ctrl-C handler: r.store(false)
CtrlC ==
    /\ handler
    /\ pc # "done"
    /\ running' = FALSE
    /\ UNCHANGED <<pc, cmd, nvml, handler, sys, polls, term, exitCode, queried, device, result>>

\* the loop condition not reading the flag
LoopCheckIgnoresFlag ==
    /\ pc = "loop"
    /\ polls < MaxPolls
    /\ pc' = "refresh"
    /\ UNCHANGED <<cmd, nvml, running, handler, sys, polls, term, exitCode, queried, device, result>>

\* while running.load(...)
LoopCheck ==
    /\ pc = "loop"
    /\ IF running
         THEN /\ polls < MaxPolls
              /\ pc' = "refresh"
         ELSE pc' = "show"
    /\ UNCHANGED <<cmd, nvml, running, handler, sys, polls, term, exitCode, queried, device, result>>

\* sys.refresh_processes(ProcessesToUpdate::All, true)
RefreshProcesses ==
    /\ pc = "refresh"
    /\ sys' \in SysTables
    /\ pc' = "get_metrics"
    /\ UNCHANGED <<cmd, nvml, running, handler, polls, term, exitCode, queried, device, result>>

\* the answers of the device to the queries of one get_metrics call;
\* a query after the failing one is not issued
DeviceAnswers(n) ==
    { [utilization |-> Err, memory |-> Err, compute |-> Err, graphics |-> Err] }
    \cup { [utilization |-> Ok(u), memory |-> Err, compute |-> Err, graphics |-> Err] :
             u \in UtilSamples }
    \cup { [utilization |-> Ok(u), memory |-> Ok(m), compute |-> Err, graphics |-> Err] :
             u \in UtilSamples, m \in MemSamples }
    \cup { [utilization |-> Ok(u), memory |-> Ok(m), compute |-> Ok(c), graphics |-> Err] :
             u \in UtilSamples, m \in MemSamples, c \in ProcLists(n) }
    \cup UNION { { [utilization |-> Ok(u), memory |-> Ok(m), compute |-> Ok(c), graphics |-> Ok(g)] :
                     u \in UtilSamples, m \in MemSamples, g \in ProcLists(n - Len(c)) } :
                 c \in ProcLists(n) }

MapOf(dev) ==
    IF dev.compute.ok /\ dev.graphics.ok
    THEN MergeProcesses(dev.compute.val, dev.graphics.val)
    ELSE EmptyMap

\* get_metrics(&device, &sys), the process lists holding at most n entries
CallGetMetrics(n) ==
    /\ pc = "get_metrics"
    /\ \E dev \in DeviceAnswers(n) :
         \E order \in IterOrders(MapOf(dev)) :
            /\ device' = dev
            /\ result' = GetMetrics(dev, sys, order)
    /\ polls' = polls + 1
    /\ queried' = TRUE
    /\ pc' = "render"
    /\ UNCHANGED <<cmd, nvml, running, handler, sys, term, exitCode>>

\* the screen cleared and the buffer written whatever get_metrics returned
RenderAlways ==
    /\ pc = "render"
    /\ IF cmd = "query_watch"
         THEN /\ term' = term \o <<"MoveTo(0,0)", "Clear(All)", "write", "flush">>
              /\ pc' = "sleep"
              /\ UNCHANGED exitCode
         ELSE /\ term' = term \o <<"write", "flush">>
              /\ pc' = "done"
              /\ exitCode' = 0
    /\ device' = NoDevice
    /\ result' = [result EXCEPT !.buffer = <<>>]
    /\ UNCHANGED <<cmd, nvml, running, handler, sys, polls, queried>>

\* the error of get_metrics returned from main (get_metrics(..)?)
RenderPropagate ==
    /\ pc = "render"
    /\ IF result.ok
         THEN /\ term' = IF cmd = "query_watch"
                         THEN term \o <<"MoveTo(0,0)", "Clear(All)", "write", "flush">>
                         ELSE term \o <<"write", "flush">>
              /\ pc' = IF cmd = "query_watch" THEN "sleep" ELSE "done"
              /\ exitCode' = 0
         ELSE /\ pc' = "done"
              /\ exitCode' = 1
              /\ UNCHANGED term
    /\ device' = NoDevice
    /\ result' = [result EXCEPT !.buffer = <<>>]
    /\ UNCHANGED <<cmd, nvml, running, handler, sys, polls, queried>>

\* if let Ok(buffer) = ... { write the buffer }
Render ==
    /\ pc = "render"
    /\ IF cmd = "query_watch"
         THEN /\ term' = IF result.ok
                         THEN term \o <<"MoveTo(0,0)", "Clear(All)", "write", "flush">>
                         ELSE term
              /\ pc' = "sleep"
              /\ UNCHANGED exitCode
         ELSE /\ term' = IF result.ok THEN term \o <<"write", "flush">> ELSE term
              /\ pc' = "done"
              /\ exitCode' = 0
    /\ device' = NoDevice
    /\ result' = [result EXCEPT !.buffer = <<>>]
    /\ UNCHANGED <<cmd, nvml, running, handler, sys, polls, queried>>

\* thread::sleep(Duration::from_secs(1))
Sleep ==
    /\ pc = "sleep"
    /\ pc' = "loop"
    /\ UNCHANGED <<cmd, nvml, running, handler, sys, polls, term, exitCode, queried, device, result>>

\* execute!(stdout, Show) and Ok(())
ShowCursor ==
    /\ pc = "show"
    /\ term' = Append(term, "Show")
    /\ pc' = "done"
    /\ exitCode' = 0
    /\ UNCHANGED <<cmd, nvml, running, handler, sys, polls, queried, device, result>>

\* Commands::Info: brand, name, power limit, total memory; k queries succeed
Info ==
    /\ pc = "info"
    /\ \E k \in 0..4 :
         /\ term' = term \o [i \in 1..k |-> "println"]
         /\ exitCode' = IF k = 4 THEN 0 ELSE 1
    /\ queried' = TRUE
    /\ pc' = "done"
    /\ UNCHANGED <<cmd, nvml, running, handler, sys, polls, device, result>>

Next ==
    \/ NvmlInit
    \/ DeviceByIndex
    \/ Dispatch
    \/ SetHandler
    \/ CtrlC
    \/ LoopCheck
    \/ RefreshProcesses
    \/ CallGetMetrics(MaxProcs)
    \/ Render
    \/ Sleep
    \/ ShowCursor
    \/ Info

Spec == Init /\ [][Next]_vars

\* the steps of the main thread; Ctrl-C is up to the user
Program ==
    \/ NvmlInit
    \/ DeviceByIndex
    \/ Dispatch
    \/ SetHandler
    \/ LoopCheck
    \/ RefreshProcesses
    \/ CallGetMetrics(MaxProcsFair)
    \/ Render
    \/ Sleep
    \/ ShowCursor
    \/ Info

FairNext ==
    \/ Program
    \/ CtrlC

\* the main thread keeps running
FairSpec == Init /\ [][FairNext]_vars /\ WF_vars(Program)

---------------------------------------------------------------------------
(* Reading a report *)

\* the process rows of a report, in report order
Rows(buffer) ==
    LET rs == SelectSeq(buffer, LAMBDA c : c.fmt = "{}")
    IN [i \in 1..Len(rs) |-> rs[i].args[1]]

RECURSIVE TrimRight(_)
TrimRight(s) ==
    IF s # <<>> /\ s[Len(s)] = Space THEN TrimRight(SubSeq(s, 1, Len(s) - 1)) ELSE s

\* the NAME column of a row
RowName(row) == TrimRight(SubSeq(row, PidWidth + 2, PidWidth + 1 + NameWidth))

PidsOf(list) == { list[i].pid : i \in 1..Len(list) }

\* the reading of the last entry of pid p in a list, and of the first
LastReading(list, p) ==
    list[CHOOSE i \in 1..Len(list) :
            list[i].pid = p /\ \A j \in (i + 1)..Len(list) : list[j].pid # p].used_gpu_memory
FirstReading(list, p) ==
    list[CHOOSE i \in 1..Len(list) :
            list[i].pid = p /\ \A j \in 1..(i - 1) : list[j].pid # p].used_gpu_memory

Reported == pc = "render" /\ result.ok

---------------------------------------------------------------------------
(* Claims *)

\* C1: the process rows of a report are ordered by resolved process name,
\* case-insensitively and ascending, whatever the pids of the rows are.
C1_RowsOrderedByName ==
    Reported =>
        LET rows == Rows(result.buffer)
        IN \A i, j \in 1..Len(rows) :
              i < j => StrCmp(ToLowercase(RowName(rows[i])), ToLowercase(RowName(rows[j]))) <= 0

\* C2: with both process lists empty and all queries succeeding, the report
\* contains the line "(No active GPU processes)" and no process rows.
C2_EmptyTablePlaceholder ==
    (Reported /\ device.compute.val = <<>> /\ device.graphics.val = <<>>) =>
        /\ \E i \in 1..Len(result.buffer) : result.buffer[i].fmt = "(No active GPU processes)\n"
        /\ Rows(result.buffer) = <<>>

\* C3: a pid in both lists has one row, showing the compute-list reading (the
\* last one the compute list gives for it); a pid only in the graphics list
\* has one row showing its (first) graphics reading.
C3_ComputeReadingWins ==
    Reported =>
        LET rows == Rows(result.buffer)
            c == device.compute.val
            g == device.graphics.val
        IN /\ Len(rows) = Cardinality(PidsOf(c) \cup PidsOf(g))
           /\ \A p \in PidsOf(c) \cup PidsOf(g) :
                \E i \in 1..Len(rows) :
                   rows[i] = FormatRow(p, GetProcessName(sys, p),
                                       MemColumn(IF p \in PidsOf(c) THEN LastReading(c, p)
                                                 ELSE FirstReading(g, p)))

C3_Witness ==
    /\ Reported
    /\ \E p \in PidsOf(device.compute.val) \cap PidsOf(device.graphics.val) :
          /\ MemColumn(LastReading(device.compute.val, p))
               # MemColumn(FirstReading(device.graphics.val, p))

\* C4: a poll in which a query fails writes nothing to the terminal, neither
\* while get_metrics runs nor when its result is handled, in both modes.
C4_NoPartialRender ==
    [][(pc = "get_metrics" \/ (pc = "render" /\ ~result.ok)) => term' = term]_vars

C4_Witness ==
    /\ pc = "sleep"
    /\ cmd = "query_watch"
    /\ ~result.ok
    /\ result.err = "graphics"
    /\ polls = 2
    /\ Len(term) = 6

\* C5: a failed poll never ends the program with an error: in watch mode the
\* loop goes on to sleep, checks the flag, polls again and renders a later
\* successful poll; in one-shot mode the program exits with code 0 and no output.
C5_FailedPollRecovered ==
    /\ [][ /\ (pc = "render" /\ ~result.ok /\ pc' # pc) =>
                IF cmd = "query_watch"
                THEN pc' = "sleep" /\ exitCode' = exitCode
                ELSE pc' = "done" /\ exitCode' = 0 /\ term' = <<>>
           /\ (pc = "sleep" /\ pc' # pc) => pc' = "loop"
           /\ (pc = "loop" /\ running /\ pc' # pc) => pc' = "refresh"
           /\ (pc = "refresh" /\ pc' # pc) => pc' = "get_metrics"
           /\ (pc = "get_metrics" /\ pc' # pc) => pc' = "render"
           /\ (pc = "render" /\ result.ok /\ cmd = "query_watch" /\ pc' # pc) =>
                term' = term \o <<"MoveTo(0,0)", "Clear(All)", "write", "flush">>
         ]_vars
    /\ []((pc = "done" /\ cmd \in {"query", "query_watch"} /\ nvml = "device_ok") => exitCode = 0)

C5_Witness ==
    /\ pc = "sleep"
    /\ cmd = "query_watch"
    /\ result.ok
    /\ polls = 2
    /\ Len(term) = 6

\* C6: the report text does not depend on the order in which the hash map
\* yields its entries: every iteration order gives the text that was produced.
C6_Deterministic ==
    Reported =>
        \A o \in IterOrders(MapOf(device)) : GetMetrics(device, sys, o).buffer = result.buffer

C6_Witness ==
    /\ Reported
    /\ DOMAIN MapOf(device) = Pids
    /\ MapOf(device)[2] = MapOf(device)[10]
    /\ sys[2] = Process(<<97>>)
    /\ sys[10] = Process(<<65>>)

\* C7: when the library cannot be initialised or device 0 does not exist, the
\* program exits with a non-zero code, having written nothing to the terminal,
\* installed no handler, started no poll and issued no metric query.
C7_InitFailureFatal ==
    (pc = "done" /\ nvml \in {"init_failed", "no_device"}) =>
        /\ exitCode # 0
        /\ term = <<>>
        /\ ~handler
        /\ polls = 0
        /\ ~queried

C7_Witness ==
    /\ pc = "done"
    /\ nvml = "no_device"
    /\ cmd = "query_watch"

\* C8: once the handler has cleared the flag, the flag stays cleared and no new
\* iteration is started; the program ends with the cursor shown again (Show is
\* the last terminal action, Hide the first) and code 0; and after an interrupt
\* the program eventually ends.
C8_CooperativeCancel ==
    /\ [][ /\ (handler /\ ~running) => ~running'
           /\ (pc' = "refresh" /\ pc # "refresh") => running
           /\ (pc = "loop" /\ ~running /\ pc' # pc) => pc' = "show"
         ]_vars
    /\ []((pc = "done" /\ handler) =>
            /\ ~running
            /\ exitCode = 0
            /\ term[1] = "Hide"
            /\ term[Len(term)] = "Show"
            /\ \A i \in 1..(Len(term) - 1) : term[i] # "Show")
    /\ ((handler /\ ~running) ~> (pc = "done"))

C8_Witness ==
    /\ pc = "done"
    /\ handler
    /\ ~running
    /\ polls = 1
    /\ Len(term) = 7

\* C9 as stated: every run with no subcommand writes nothing and exits with 0.
C9_NoSubcommandNoop ==
    (pc = "done" /\ cmd = "none") => (term = <<>> /\ exitCode = 0)

\* C9 as amended: a run with no subcommand in which the library and device 0
\* were initialised writes nothing, issues no query and exits with code 0.
C9_NoSubcommandNoopAfterInit ==
    (pc = "done" /\ cmd = "none" /\ nvml = "device_ok") =>
        (term = <<>> /\ exitCode = 0 /\ ~queried /\ polls = 0)

C9_Witness ==
    /\ pc = "done"
    /\ cmd = "none"
    /\ nvml = "device_ok"

\* C10: every displayed memory figure is the byte count divided by 1048576,
\* truncated; an Unavailable per-process reading is displayed as 0.
C10_MebibyteConversion ==
    Reported =>
        LET rows == Rows(result.buffer)
            map == MapOf(device)
            m == device.memory.val
        IN /\ result.buffer[3].args = << Decimal(m.used \div 1048576),
                                         Decimal(m.total \div 1048576),
                                         Decimal(m.free \div 1048576) >>
           /\ \A p \in DOMAIN map :
                \E i \in 1..Len(rows) :
                   rows[i] = FormatRow(p, GetProcessName(sys, p),
                                       IF map[p].avail THEN map[p].bytes \div 1048576 ELSE 0)

C10_Witness ==
    /\ Reported
    /\ device.memory.val.used = 1048575
    /\ \E p, q \in DOMAIN MapOf(device) :
          /\ MapOf(device)[p] = Unavailable
          /\ MapOf(device)[q] = Used(3145727)

====
